---- MODULE Spec2Model ----
(***************************************************************************)
(* Wizard controller of the arcube upsell flow.                            *)
(*                                                                         *)
(* Two page components are modelled, selected by the variable `variant`:   *)
(*   "api"   - src/unnamed/part_000   (calls the backend with fetch)       *)
(*   "dummy" - src/src/pages/Index.tsx (simulates both calls with timers)  *)
(*                                                                         *)
(* The React state of the component is the state of the model.  One click  *)
(* or keystroke handler is one action; the state updates a handler (or an  *)
(* awaited continuation, or a timer callback) makes are committed together *)
(* (React 18 batches the updates of one task into a single render).        *)
(* Strings are tuples of one-character strings; prices are in cents.       *)
(***************************************************************************)
EXTENDS Integers, Sequences, FiniteSets, TLC

VARIABLES
    variant,         \* which page component runs: "api" | "dummy"
    currentStep,     \* useState(1)
    isLoading,       \* useState(false)
    recommendation,  \* useState<RecommendationResponse | null>(null)
    currentSection,  \* useState<string | null>(null)
    formData,        \* useState({...})
    errors,          \* useState<Record<string,string>>({})
    pending,         \* boundary calls / timers issued and not yet resolved
    last             \* history: the handler that made the last step, with its
                     \* outcome where it has one (the toast it raised)

vars == <<variant, currentStep, isLoading, recommendation, currentSection,
          formData, errors, pending, last>>

-----------------------------------------------------------------------------
(* Bounds and input sets *)

\* largest number of ancillaries in a recommendation response
MaxCatalog == 2

\* largest number of upgrades selected at once (caps the toggles that add)
MaxSelected == 2

\* e.target.value of the email input
EmailInputs ==
    { <<>>, <<"a", "b">>, <<"a", "@", "b", ".", "c", "o">> }

\* e.target.value of the flight-number input (before toUpperCase)
FlightInputs ==
    { <<>>, <<"b", "a">>, <<"b", "a", "0">> }

\* e.target.value of the two address inputs
AddressInputs ==
    { <<>>, <<"1", "2", "3", "4">>, <<"1", "2", "3", "4", "5">> }

\* e.target.value of passengers, pickupDate, pickupTime; value of carType
ChoiceInputs == { <<>>, <<"2">> }

\* largest number of ancillaries in a catalog whose grouping is examined
MaxGroupItems == 3

\* ancillary.category of a response item ("" stands for a missing category)
CategoryInputs == {"transportation", "insurance", "", "10", "2"}

\* longest email typed when the email schema is examined on its own
MaxEmailLen == 6

\* the characters of those emails
EmailAlphabet == {"a", "1", "@", ".", "-", "!"}

-----------------------------------------------------------------------------
(* Values *)

NoSection == "<null>"

NullRecommendation ==
    [isNull |-> TRUE, _id |-> 0, hasAncillaries |-> FALSE, ancillaries |-> <<>>]

initialFormData ==
    [ email |-> <<>>, flightNumber |-> <<>>, needsTransport |-> "null",
      pickupAddress |-> <<>>, dropoffAddress |-> <<>>, passengers |-> <<>>,
      pickupDate |-> <<>>, pickupTime |-> <<>>, carType |-> <<>>,
      selectedUpgrades |-> <<>> ]

\* the dummy variant's form has no needsTransport field; the model keeps the
\* field at "null" there and no dummy action reads it
noErrors == [k \in {} |-> ""]

-----------------------------------------------------------------------------
(* Character classes and String.prototype.toUpperCase *)

Letters == {"a", "b", "c", "o", "A", "B", "C", "O"}
Digits  == {"0", "1", "2", "3", "4", "5"}

toUpperCase(s) ==
    [i \in 1..Len(s) |->
        CASE s[i] = "a" -> "A"
          [] s[i] = "b" -> "B"
          [] s[i] = "c" -> "C"
          [] s[i] = "o" -> "O"
          [] OTHER      -> s[i]]

-----------------------------------------------------------------------------
(* Validation schemas (zod) *)

\* z.string().email(): zod's emailRegex
\*  /^(?!\.)(?!.*\.\.)([A-Z0-9_'+\-\.]*)[A-Z0-9_+-]@([A-Z0-9][A-Z0-9\-]*\.)+[A-Z]{2,}$/i
AtPositions(s) == {i \in 1..Len(s) : s[i] = "@"}

LocalOk(l) ==
    /\ Len(l) >= 1
    /\ \A i \in 1..Len(l) : l[i] \in Letters \cup Digits \cup {"_", "'", "+", "-", "."}
    /\ l[Len(l)] \in Letters \cup Digits \cup {"_", "+", "-"}

DotPositions(d) == {i \in 1..Len(d) : d[i] = "."}

\* the labels of d, as the index ranges between its dots
LabelOk(d, from, to) ==
    /\ from <= to
    /\ d[from] \in Letters \cup Digits
    /\ \A i \in from..to : d[i] \in Letters \cup Digits \cup {"-"}

DomainOk(d) ==
    LET dots    == DotPositions(d)
        lastDot == CHOOSE i \in dots : \A j \in dots : j <= i
        PrevDot(i) == IF \E j \in dots : j < i
                      THEN CHOOSE j \in dots : j < i /\ \A k \in dots : k < i => k <= j
                      ELSE 0
    IN  /\ dots # {}
        /\ \A i \in dots : LabelOk(d, PrevDot(i) + 1, i - 1)
        /\ Len(d) - lastDot >= 2
        /\ \A i \in (lastDot + 1)..Len(d) : d[i] \in Letters

\* z.string().min(1) in place of z.string().email()
emailSchema_NonEmpty(s) == Len(s) >= 1

emailSchema(s) ==
    /\ Cardinality(AtPositions(s)) = 1
    /\ s[1] # "."
    /\ \A i \in 1..(Len(s) - 1) : ~(s[i] = "." /\ s[i + 1] = ".")
    /\ LET at == CHOOSE i \in AtPositions(s) : TRUE
       IN  /\ LocalOk(SubSeq(s, 1, at - 1))
           /\ DomainOk(SubSeq(s, at + 1, Len(s)))

\* z.string().min(2)
flightSchema_Min2(s) == Len(s) >= 2

\* z.string().min(3)
flightSchema(s) == Len(s) >= 3

\* carTransferSchema that aborts at the first failing field, in schema order
carTransferIssues_FirstOnly(f) ==
    IF Len(f.pickupAddress) < 5 THEN {"pickupAddress"}
    ELSE IF Len(f.dropoffAddress) < 5 THEN {"dropoffAddress"}
    ELSE IF Len(f.passengers) < 1 THEN {"passengers"}
    ELSE IF Len(f.pickupDate) < 1 THEN {"pickupDate"}
    ELSE IF Len(f.pickupTime) < 1 THEN {"pickupTime"}
    ELSE IF Len(f.carType) < 1 THEN {"carType"}
    ELSE {}

\* carTransferSchema: the set of fields whose rule fails
carTransferIssues(f) ==
    {k \in {"pickupAddress"} : Len(f.pickupAddress) < 5}
    \cup {k \in {"dropoffAddress"} : Len(f.dropoffAddress) < 5}
    \cup {k \in {"passengers"} : Len(f.passengers) < 1}
    \cup {k \in {"pickupDate"} : Len(f.pickupDate) < 1}
    \cup {k \in {"pickupTime"} : Len(f.pickupTime) < 1}
    \cup {k \in {"carType"} : Len(f.carType) < 1}

Message(k) ==
    CASE k = "email"          -> "Please enter a valid email address"
      [] k = "flightNumber"   -> "Flight number must be at least 3 characters"
      [] k = "needsTransport" -> "Please select an option"
      [] k = "pickupAddress"  -> "Please enter a pickup address"
      [] k = "dropoffAddress" -> "Please enter a drop-off address"
      [] k = "passengers"     -> "Please select number of passengers"
      [] k = "pickupDate"     -> "Please select a pickup date"
      [] k = "pickupTime"     -> "Please select a pickup time"
      [] k = "carType"        -> "Please select a car type"

ErrorsFor(keys) == [k \in keys |-> Message(k)]

\* validateStep that touches `errors` only in its catch block: a step that
\* passes leaves the errors already shown
validateStepErrors_KeptOnPass(step, f) ==
    CASE step = 1 -> IF emailSchema(f.email) THEN errors ELSE ErrorsFor({"email"})
      [] step = 2 -> IF flightSchema(f.flightNumber) THEN errors
                     ELSE ErrorsFor({"flightNumber"})
      [] step = 3 -> IF f.needsTransport = "null" THEN ErrorsFor({"needsTransport"})
                     ELSE errors
      [] step = 4 -> IF f.needsTransport = "true" /\ carTransferIssues(f) # {}
                     THEN ErrorsFor(carTransferIssues(f))
                     ELSE errors
      [] OTHER    -> errors

\* validateStep without its leading setErrors({}): the new issues are merged
\* into the errors already shown
validateStepErrors_NoClear(step, f) ==
    LET new == CASE step = 1 -> IF emailSchema(f.email) THEN {} ELSE {"email"}
                 [] step = 2 -> IF flightSchema(f.flightNumber) THEN {}
                                ELSE {"flightNumber"}
                 [] step = 3 -> IF f.needsTransport = "null" THEN {"needsTransport"}
                                ELSE {}
                 [] step = 4 -> IF f.needsTransport = "true" THEN carTransferIssues(f)
                                ELSE {}
                 [] OTHER    -> {}
    IN  ErrorsFor(DOMAIN errors \cup new)

\* validateStep whose catch block returns false without storing the issues
validateStepErrors_Dropped(step, f) == noErrors

\* validateStep of part_000: the errors it leaves in `errors`
\* (setErrors({}) first, then the issues of the step's schema)
validateStepErrors(step, f) ==
    CASE step = 1 -> IF emailSchema(f.email) THEN noErrors ELSE ErrorsFor({"email"})
      [] step = 2 -> IF flightSchema(f.flightNumber) THEN noErrors
                     ELSE ErrorsFor({"flightNumber"})
      [] step = 3 -> IF f.needsTransport = "null" THEN ErrorsFor({"needsTransport"})
                     ELSE noErrors
      [] step = 4 -> IF f.needsTransport = "true" THEN ErrorsFor(carTransferIssues(f))
                     ELSE noErrors
      [] OTHER    -> noErrors

\* validateStep of part_000: its return value
validateStep(step, f) ==
    CASE step = 1 -> emailSchema(f.email)
      [] step = 2 -> flightSchema(f.flightNumber)
      [] step = 3 -> f.needsTransport # "null"
      [] step = 4 -> f.needsTransport = "true" => carTransferIssues(f) = {}
      [] OTHER    -> TRUE

\* validateStep of Index.tsx: step 3 is the car transfer form, always checked
validateStepErrors_D(step, f) ==
    CASE step = 1 -> IF emailSchema(f.email) THEN noErrors ELSE ErrorsFor({"email"})
      [] step = 2 -> IF flightSchema(f.flightNumber) THEN noErrors
                     ELSE ErrorsFor({"flightNumber"})
      [] step = 3 -> ErrorsFor(carTransferIssues(f))
      [] OTHER    -> noErrors

validateStep_D(step, f) ==
    CASE step = 1 -> emailSchema(f.email)
      [] step = 2 -> flightSchema(f.flightNumber)
      [] step = 3 -> carTransferIssues(f) = {}
      [] OTHER    -> TRUE

-----------------------------------------------------------------------------
(* Selection ledger and derived views *)

includes(seq, x) == \E i \in 1..Len(seq) : seq[i] = x

filterOut(seq, x) == SelectSeq(seq, LAMBDA y : y # x)

\* handleUpgradeToggle as a single choice: selecting an id drops the others
toggled_SingleChoice(sel, upgradeId) ==
    IF includes(sel, upgradeId) THEN filterOut(sel, upgradeId)
    ELSE <<upgradeId>>

\* handleUpgradeToggle without the includes() test: every click appends
toggled_AlwaysAppend(sel, upgradeId) == Append(sel, upgradeId)

\* handleUpgradeToggle that removes only the last element when the id is
\* already selected (pop instead of filter)
toggled_Pop(sel, upgradeId) ==
    IF includes(sel, upgradeId) THEN SubSeq(sel, 1, Len(sel) - 1)
    ELSE Append(sel, upgradeId)

\* the new selectedUpgrades computed by handleUpgradeToggle
toggled(sel, upgradeId) ==
    IF includes(sel, upgradeId) THEN filterOut(sel, upgradeId)
    ELSE Append(sel, upgradeId)

\* ancillary.category || 'other'
categoryKey(a) == IF a.category = "" THEN "other" ELSE a.category

\* the keys getCategories() returns
categoryNames(rec) ==
    IF rec.isNull \/ ~rec.hasAncillaries THEN {}
    ELSE {categoryKey(rec.ancillaries[i]) : i \in 1..Len(rec.ancillaries)}

\* recommendation.ancillaries.filter(item => item.category === currentSection)
sectionItems(rec, section) ==
    SelectSeq(rec.ancillaries, LAMBDA a : a.category = section)

\* A property key that is an array index (a canonical numeric string) and its
\* value; -1 for every other key.  OrdinaryOwnPropertyKeys lists array-index
\* keys first, in ascending numeric order, then the other string keys in the
\* order in which they were created.
ArrayIndexValue(key) ==
    CASE key = "10" -> 10
      [] key = "2"  -> 2
      [] OTHER      -> -1

\* the keys of `acc` in the order the reduce callback creates them
RECURSIVE createdKeys(_, _)
createdKeys(ancillaries, acc) ==
    IF ancillaries = <<>> THEN acc
    ELSE LET category == categoryKey(Head(ancillaries))
         IN  createdKeys(Tail(ancillaries),
                         IF includes(acc, category) THEN acc ELSE Append(acc, category))

\* the array-index keys of a set, ascending by value
RECURSIVE ascendingIndexKeys(_)
ascendingIndexKeys(keys) ==
    IF keys = {} THEN <<>>
    ELSE LET least == CHOOSE k \in keys :
                         \A j \in keys : ArrayIndexValue(k) <= ArrayIndexValue(j)
         IN  <<least>> \o ascendingIndexKeys(keys \ {least})

\* Object.entries of an object whose keys were created in the given order
entriesOrder(created) ==
    ascendingIndexKeys({created[i] : i \in {j \in 1..Len(created) :
                                              ArrayIndexValue(created[j]) >= 0}})
    \o SelectSeq(created, LAMBDA k : ArrayIndexValue(k) < 0)

\* getCategories(): the [category, items] pairs of Object.entries(categories)
getCategories(rec) ==
    IF rec.isNull \/ ~rec.hasAncillaries THEN <<>>
    ELSE LET order == entriesOrder(createdKeys(rec.ancillaries, <<>>))
         IN  [i \in 1..Len(order) |->
                <<order[i],
                  SelectSeq(rec.ancillaries, LAMBDA a : categoryKey(a) = order[i])>>]

catalogIds(rec) ==
    IF rec.isNull \/ ~rec.hasAncillaries THEN {}
    ELSE {rec.ancillaries[i]._id : i \in 1..Len(rec.ancillaries)}

\* recommendation.ancillaries.find(a => a._id === upgradeId)?.price || 0
\* (the price of the first item with that id; 0 when there is none)
priceOf(ancillaries, upgradeId) ==
    LET hits == {i \in 1..Len(ancillaries) : ancillaries[i]._id = upgradeId}
    IN  IF hits = {} THEN 0
        ELSE ancillaries[CHOOSE i \in hits : \A j \in hits : i <= j].price

\* calculateTotal whose reduce callback returns the price instead of
\* total + price: the result is the price of the last selected upgrade
calculateTotal_LastOnly(rec, sel) ==
    IF rec.isNull \/ ~rec.hasAncillaries \/ sel = <<>> THEN 0
    ELSE priceOf(rec.ancillaries, sel[Len(sel)])

\* selectedUpgrades.reduce((total, id) => total + price(id), 0), in cents.
\* Every use of the result goes through toFixed(2), which prints the sum of
\* two-decimal prices to the cent.
RECURSIVE reduceTotal(_, _, _)
reduceTotal(ancillaries, sel, total) ==
    IF sel = <<>> THEN total
    ELSE reduceTotal(ancillaries, Tail(sel), total + priceOf(ancillaries, Head(sel)))

calculateTotal(rec, sel) ==
    IF rec.isNull \/ ~rec.hasAncillaries THEN 0
    ELSE reduceTotal(rec.ancillaries, sel, 0)

-----------------------------------------------------------------------------
(* What the backend can answer *)

\* ancillary i of the backend's catalog (price in cents)
PoolItem(i) ==
    [ _id      |-> i,
      price    |-> CASE i % 4 = 1 -> 2070 [] i % 4 = 2 -> 660
                     [] i % 4 = 3 -> 1599 [] OTHER -> 0,
      category |-> CASE i % 4 = 1 -> "transportation" [] i % 4 = 2 -> "insurance"
                     [] i % 4 = 3 -> "" [] OTHER -> "transportation" ]

CatalogOf(n) ==
    [isNull |-> FALSE, _id |-> 100 + n, hasAncillaries |-> TRUE,
     ancillaries |-> [i \in 1..n |-> PoolItem(i)]]

\* a 2xx body without the ancillaries list
MalformedRecommendation ==
    [isNull |-> FALSE, _id |-> 0, hasAncillaries |-> FALSE, ancillaries |-> <<>>]

\* the values `await response.json()` can produce for a 2xx recommend response
RecommendBodies ==
    {NullRecommendation, MalformedRecommendation} \cup {CatalogOf(n) : n \in 0..MaxCatalog}

\* DUMMY_RECOMMENDATION of Index.tsx (ids are the last four digits of _id)
DummyItem(i) ==
    [ _id      |-> 8332 + i,
      price    |-> CASE i = 1 -> 2070 [] i = 2 -> 660 [] i = 3 -> 1599
                     [] i = 4 -> 4500 [] i = 5 -> 1299 [] OTHER -> 2499,
      category |-> CASE i = 1 -> "transportation" [] i \in {2, 3} -> "insurance"
                     [] i \in {4, 5} -> "comfort" [] OTHER -> "esim" ]

DUMMY_RECOMMENDATION ==
    [isNull |-> FALSE, _id |-> 8332, hasAncillaries |-> TRUE,
     ancillaries |-> [i \in 1..6 |-> DummyItem(i)]]

-----------------------------------------------------------------------------
(* The step names of the specification *)

Step ==
    IF variant = "api"
    THEN CASE currentStep = 1 -> "Email"
           [] currentStep = 2 -> "Flight"
           [] currentStep = 3 -> "TransferChoice"
           [] currentStep = 4 -> "TransferDetails"
           [] currentStep = 5 -> IF currentSection = NoSection THEN "CatalogBrowse"
                                 ELSE "CategoryDetail"
           [] currentStep = 6 -> "Review"
           [] currentStep = 7 -> "Confirmed"
           [] OTHER           -> "Unreachable"
    ELSE CASE currentStep = 1 -> "Email"
           [] currentStep = 2 -> "Flight"
           [] currentStep = 3 -> "TransferDetails"
           [] currentStep = 4 -> IF currentSection = NoSection THEN "CatalogBrowse"
                                 ELSE "CategoryDetail"
           [] currentStep = 5 -> "Review"
           [] currentStep = 6 -> "Confirmed"
           [] OTHER           -> "Unreachable"

-----------------------------------------------------------------------------
Init ==
    /\ variant \in {"api", "dummy"}
    /\ currentStep = 1
    /\ isLoading = FALSE
    /\ recommendation = NullRecommendation
    /\ currentSection = NoSection
    /\ formData = initialFormData
    /\ errors = noErrors
    /\ pending = <<>>
    /\ last = "init"

-----------------------------------------------------------------------------
(* part_000: the API-backed page.  While isLoading the loading panel         *)
(* replaces every step, so no control of any step can be used.               *)

\* the page without the loading panel: the step stays usable while isLoading
Shown_NoPanel(step) == variant = "api" /\ currentStep = step

Shown(step) == variant = "api" /\ ~isLoading /\ currentStep = step

\* fetchRecommendation that forgets setIsLoading(true)
fetchRecommendation_NoBusy ==
    /\ isLoading' = isLoading
    /\ pending' = Append(pending,
                    [kind |-> "recommend",
                     body |-> [email |-> formData.email,
                               flight_number |-> formData.flightNumber],
                     from |-> currentStep])

\* the body of fetchRecommendation up to the await: setIsLoading(true), fetch(...)
fetchRecommendation ==
    /\ isLoading' = TRUE
    /\ pending' = Append(pending,
                    [kind |-> "recommend",
                     body |-> [email |-> formData.email,
                               flight_number |-> formData.flightNumber],
                     from |-> currentStep])

\* the email input also editable on the flight step (in place of "Change
\* email")
setEmail_OnFlightStep ==
    /\ Shown(1) \/ Shown(2)
    /\ \E v \in EmailInputs : formData' = [formData EXCEPT !.email = v]
    /\ last' = "setEmail"
    /\ UNCHANGED <<variant, currentStep, isLoading, recommendation, currentSection,
                   errors, pending>>

\* onChange of the email input
setEmail ==
    /\ Shown(1)
    /\ \E v \in EmailInputs : formData' = [formData EXCEPT !.email = v]
    /\ last' = "setEmail"
    /\ UNCHANGED <<variant, currentStep, isLoading, recommendation, currentSection,
                   errors, pending>>

\* onChange of the flight number input
setFlightNumber ==
    /\ Shown(2)
    /\ \E v \in FlightInputs : formData' = [formData EXCEPT !.flightNumber = toUpperCase(v)]
    /\ last' = "setFlightNumber"
    /\ UNCHANGED <<variant, currentStep, isLoading, recommendation, currentSection,
                   errors, pending>>

\* "Change email" on the flight step
changeEmail ==
    /\ Shown(2)
    /\ currentStep' = 1
    /\ last' = "changeEmail"
    /\ UNCHANGED <<variant, isLoading, recommendation, currentSection, formData,
                   errors, pending>>

\* the two choice buttons shown on the car transfer step as well
setNeedsTransport_OnDetails ==
    /\ Shown(3) \/ Shown(4)
    /\ \E v \in {"true", "false"} : formData' = [formData EXCEPT !.needsTransport = v]
    /\ last' = "setNeedsTransport"
    /\ UNCHANGED <<variant, currentStep, isLoading, recommendation, currentSection,
                   errors, pending>>

\* the transport inquiry step with a dead "No, thanks" button
setNeedsTransport_YesOnly ==
    /\ Shown(3)
    /\ formData' = [formData EXCEPT !.needsTransport = "true"]
    /\ last' = "setNeedsTransport"
    /\ UNCHANGED <<variant, currentStep, isLoading, recommendation, currentSection,
                   errors, pending>>

\* the two choice buttons of the transport inquiry step
setNeedsTransport ==
    /\ Shown(3)
    /\ \E v \in {"true", "false"} : formData' = [formData EXCEPT !.needsTransport = v]
    /\ last' = "setNeedsTransport"
    /\ UNCHANGED <<variant, currentStep, isLoading, recommendation, currentSection,
                   errors, pending>>

\* the step-4 panel is rendered only when formData.needsTransport is truthy
ShownTransferDetails == Shown(4) /\ formData.needsTransport = "true"

\* onChange / onValueChange of the six car transfer inputs
setTransferField ==
    /\ ShownTransferDetails
    /\ \/ \E v \in AddressInputs : formData' = [formData EXCEPT !.pickupAddress = v]
       \/ \E v \in AddressInputs : formData' = [formData EXCEPT !.dropoffAddress = v]
       \/ \E v \in ChoiceInputs : formData' = [formData EXCEPT !.passengers = v]
       \/ \E v \in ChoiceInputs : formData' = [formData EXCEPT !.pickupDate = v]
       \/ \E v \in ChoiceInputs : formData' = [formData EXCEPT !.pickupTime = v]
       \/ \E v \in ChoiceInputs : formData' = [formData EXCEPT !.carType = v]
    /\ last' = "setTransferField"
    /\ UNCHANGED <<variant, currentStep, isLoading, recommendation, currentSection,
                   errors, pending>>

\* "<- Back" on the car transfer step
backToTransportInquiry ==
    /\ ShownTransferDetails
    /\ currentStep' = 3
    /\ last' = "backToTransportInquiry"
    /\ UNCHANGED <<variant, isLoading, recommendation, currentSection, formData,
                   errors, pending>>

\* handleNext that always shows the car transfer step after the inquiry
handleNext_AlwaysDetails ==
    /\ variant = "api" /\ ~isLoading /\ currentStep \in 1..4
    /\ currentStep = 3 => formData.needsTransport # "null"
    /\ errors' = validateStepErrors(currentStep, formData)
    /\ IF validateStep(currentStep, formData)
       THEN IF currentStep = 4
            THEN /\ fetchRecommendation
                 /\ UNCHANGED currentStep
            ELSE /\ currentStep' = currentStep + 1
                 /\ UNCHANGED <<isLoading, pending>>
       ELSE UNCHANGED <<currentStep, isLoading, pending>>
    /\ last' = "handleNext"
    /\ UNCHANGED <<variant, recommendation, currentSection, formData>>

\* The Continue / Find My Upgrades buttons of steps 1..4.  The step-3 button is
\* disabled while needsTransport is null.
handleNext ==
    /\ variant = "api" /\ ~isLoading /\ currentStep \in 1..4
    /\ currentStep = 3 => formData.needsTransport # "null"
    /\ currentStep = 4 => formData.needsTransport = "true"
    /\ errors' = validateStepErrors(currentStep, formData)
    /\ IF validateStep(currentStep, formData)
       THEN CASE currentStep = 2 ->
                   /\ currentStep' = 3
                   /\ UNCHANGED <<isLoading, pending>>
              [] currentStep = 3 ->
                   IF formData.needsTransport = "true"
                   THEN /\ currentStep' = 4
                        /\ UNCHANGED <<isLoading, pending>>
                   ELSE /\ fetchRecommendation
                        /\ UNCHANGED currentStep
              [] currentStep = 4 ->
                   /\ fetchRecommendation
                   /\ UNCHANGED currentStep
              [] OTHER ->
                   /\ currentStep' = currentStep + 1
                   /\ UNCHANGED <<isLoading, pending>>
       ELSE UNCHANGED <<currentStep, isLoading, pending>>
    /\ last' = "handleNext"
    /\ UNCHANGED <<variant, recommendation, currentSection, formData>>

\* what the recommend call can resolve to
RecommendOutcomes ==
    {[status |-> "non2xx", data |-> NullRecommendation],
     [status |-> "throw", data |-> NullRecommendation]}
    \cup {[status |-> "ok", data |-> d] : d \in RecommendBodies}

\* history value of a resolution of the recommend call
RecommendEvent(o) ==
    CASE o.status = "ok"     -> "recommend:ok"
      [] o.status = "non2xx" -> "recommend:non2xx"
      [] OTHER               -> "recommend:throw"

\* fetchRecommendation without its finally block: isLoading is cleared only
\* at the end of the try body
fetchRecommendationResolved_NoFinally ==
    /\ variant = "api"
    /\ pending # <<>> /\ Head(pending).kind = "recommend"
    /\ \E o \in RecommendOutcomes :
         /\ IF o.status = "ok"
            THEN /\ recommendation' = o.data
                 /\ currentStep' = 5
                 /\ isLoading' = FALSE
            ELSE UNCHANGED <<recommendation, currentStep, isLoading>>
         /\ last' = RecommendEvent(o)
    /\ pending' = Tail(pending)
    /\ UNCHANGED <<variant, currentSection, formData, errors>>

\* fetchRecommendation after the await: the try body, the catch and the finally
fetchRecommendationResolved ==
    /\ variant = "api"
    /\ pending # <<>> /\ Head(pending).kind = "recommend"
    /\ \E o \in RecommendOutcomes :
         /\ IF o.status = "ok"
            THEN /\ recommendation' = o.data
                 /\ currentStep' = 5              \* toast "Recommendations Loaded"
            ELSE UNCHANGED <<recommendation, currentStep>>   \* toast "Error"
         /\ last' = RecommendEvent(o)
    /\ isLoading' = FALSE
    /\ pending' = Tail(pending)
    /\ UNCHANGED <<variant, currentSection, formData, errors>>

\* a category card of the sections overview
openSection ==
    /\ Shown(5) /\ currentSection = NoSection /\ ~recommendation.isNull
    /\ \E c \in categoryNames(recommendation) : currentSection' = c
    /\ last' = "openSection"
    /\ UNCHANGED <<variant, currentStep, isLoading, recommendation, formData,
                   errors, pending>>

\* "<- Back to Categories"
backToCategories ==
    /\ Shown(5) /\ currentSection # NoSection /\ ~recommendation.isNull
    /\ currentSection' = NoSection
    /\ last' = "backToCategories"
    /\ UNCHANGED <<variant, currentStep, isLoading, recommendation, formData,
                   errors, pending>>

\* handleUpgradeToggle with a "Remove" button also in the order summary of the
\* confirmation step
handleUpgradeToggle_OnConfirmed ==
    /\ variant = "api" /\ ~isLoading /\ ~recommendation.isNull
    /\ \E id \in catalogIds(recommendation) :
         /\ \/ /\ currentStep = 5 /\ currentSection # NoSection
               /\ \E i \in 1..Len(sectionItems(recommendation, currentSection)) :
                     sectionItems(recommendation, currentSection)[i]._id = id
            \/ /\ currentStep \in {6, 7}
               /\ includes(formData.selectedUpgrades, id)
         /\ includes(formData.selectedUpgrades, id)
               \/ Len(formData.selectedUpgrades) < MaxSelected
         /\ formData' = [formData EXCEPT
                            !.selectedUpgrades = toggled(formData.selectedUpgrades, id)]
    /\ last' = "handleUpgradeToggle"
    /\ UNCHANGED <<variant, currentStep, isLoading, recommendation, currentSection,
                   errors, pending>>

\* handleUpgradeToggle, from an item card of the open section or from "Remove"
\* of the review list (which shows the selected ids found in the catalog)
handleUpgradeToggle ==
    /\ variant = "api" /\ ~isLoading /\ ~recommendation.isNull
    /\ \E id \in catalogIds(recommendation) :
         /\ \/ /\ currentStep = 5 /\ currentSection # NoSection
               /\ \E i \in 1..Len(sectionItems(recommendation, currentSection)) :
                     sectionItems(recommendation, currentSection)[i]._id = id
            \/ /\ currentStep = 6
               /\ includes(formData.selectedUpgrades, id)
         /\ includes(formData.selectedUpgrades, id)
               \/ Len(formData.selectedUpgrades) < MaxSelected
         /\ formData' = [formData EXCEPT
                            !.selectedUpgrades = toggled(formData.selectedUpgrades, id)]
    /\ last' = "handleUpgradeToggle"
    /\ UNCHANGED <<variant, currentStep, isLoading, recommendation, currentSection,
                   errors, pending>>

\* "Review Order (n)" without its disabled attribute
reviewOrder_NotDisabled ==
    /\ Shown(5) /\ ~recommendation.isNull
    /\ currentStep' = 6
    /\ last' = "reviewOrder"
    /\ UNCHANGED <<variant, isLoading, recommendation, currentSection, formData,
                   errors, pending>>

\* "Review Order (n)", on the overview and in a section; disabled when nothing
\* is selected
reviewOrder ==
    /\ Shown(5) /\ ~recommendation.isNull
    /\ Len(formData.selectedUpgrades) # 0
    /\ currentStep' = 6
    /\ last' = "reviewOrder"
    /\ UNCHANGED <<variant, isLoading, recommendation, currentSection, formData,
                   errors, pending>>

\* "<- Back to Upgrades" with the step number of the dummy-data page
backToUpgrades_WrongStep ==
    /\ Shown(6) /\ ~recommendation.isNull
    /\ currentStep' = 4
    /\ last' = "backToUpgrades"
    /\ UNCHANGED <<variant, isLoading, recommendation, currentSection, formData,
                   errors, pending>>

\* "<- Back to Upgrades" on the review step
backToUpgrades ==
    /\ Shown(6) /\ ~recommendation.isNull
    /\ currentStep' = 5
    /\ last' = "backToUpgrades"
    /\ UNCHANGED <<variant, isLoading, recommendation, currentSection, formData,
                   errors, pending>>

\* placeOrder without its empty-selection check
placeOrder_NoPrecondition ==
    /\ Shown(6) /\ ~recommendation.isNull
    /\ isLoading' = TRUE
    /\ pending' = Append(pending,
                    [kind |-> "order",
                     body |-> [recommendation |-> recommendation._id,
                               ancillaries |-> formData.selectedUpgrades,
                               email |-> formData.email],
                     from |-> currentStep])
    /\ last' = "placeOrder"
    /\ UNCHANGED <<variant, currentStep, recommendation, currentSection, formData, errors>>

\* placeOrder that sends the ids of every ancillary of the recommendation
placeOrder_WholeCatalog ==
    /\ Shown(6) /\ ~recommendation.isNull
    /\ IF recommendation.isNull \/ Len(formData.selectedUpgrades) = 0
       THEN /\ last' = "placeOrder:noSelection"
            /\ UNCHANGED <<isLoading, pending>>
       ELSE /\ isLoading' = TRUE
            /\ pending' = Append(pending,
                            [kind |-> "order",
                             body |-> [recommendation |-> recommendation._id,
                                       ancillaries |->
                                          [i \in 1..Len(recommendation.ancillaries) |->
                                              recommendation.ancillaries[i]._id],
                                       email |-> formData.email],
                             from |-> currentStep])
            /\ last' = "placeOrder"
    /\ UNCHANGED <<variant, currentStep, recommendation, currentSection, formData, errors>>

\* placeOrder up to the await
placeOrder ==
    /\ Shown(6) /\ ~recommendation.isNull
    /\ IF recommendation.isNull \/ Len(formData.selectedUpgrades) = 0
       THEN /\ last' = "placeOrder:noSelection"   \* toast "No Selection"
            /\ UNCHANGED <<isLoading, pending>>
       ELSE /\ isLoading' = TRUE
            /\ pending' = Append(pending,
                            [kind |-> "order",
                             body |-> [recommendation |-> recommendation._id,
                                       ancillaries |-> formData.selectedUpgrades,
                                       email |-> formData.email],
                             from |-> currentStep])
            /\ last' = "placeOrder"
    /\ UNCHANGED <<variant, currentStep, recommendation, currentSection, formData, errors>>

\* what the order call can resolve to: a non-2xx response, a thrown error
\* (network, unparsable body), or a 2xx body with its success flag
OrderOutcomes ==
    {[status |-> "non2xx", success |-> FALSE], [status |-> "throw", success |-> FALSE],
     [status |-> "ok", success |-> TRUE], [status |-> "ok", success |-> FALSE]}

\* history value of a resolution of the order call
OrderEvent(o) ==
    CASE o.status = "ok" /\ o.success -> "order:ok:true"
      [] o.status = "ok"              -> "order:ok:false"
      [] o.status = "non2xx"          -> "order:non2xx"
      [] OTHER                        -> "order:throw"

\* placeOrder whose catch block sends the user back to the upgrades
placeOrderResolved_BackOnFailure ==
    /\ variant = "api"
    /\ pending # <<>> /\ Head(pending).kind = "order"
    /\ \E o \in OrderOutcomes :
         /\ IF o.status = "ok" /\ o.success
            THEN currentStep' = 7
            ELSE currentStep' = 5
         /\ last' = OrderEvent(o)
    /\ isLoading' = FALSE
    /\ pending' = Tail(pending)
    /\ UNCHANGED <<variant, recommendation, currentSection, formData, errors>>

\* placeOrder without its finally block: isLoading is cleared only on success
placeOrderResolved_NoFinally ==
    /\ variant = "api"
    /\ pending # <<>> /\ Head(pending).kind = "order"
    /\ \E o \in OrderOutcomes :
         /\ IF o.status = "ok" /\ o.success
            THEN /\ currentStep' = 7
                 /\ isLoading' = FALSE
            ELSE UNCHANGED <<currentStep, isLoading>>
         /\ last' = OrderEvent(o)
    /\ pending' = Tail(pending)
    /\ UNCHANGED <<variant, recommendation, currentSection, formData, errors>>

\* placeOrder that confirms on any 2xx response, without reading data.success
placeOrderResolved_IgnoreFlag ==
    /\ variant = "api"
    /\ pending # <<>> /\ Head(pending).kind = "order"
    /\ \E o \in OrderOutcomes :
         /\ IF o.status = "ok"
            THEN currentStep' = 7
            ELSE UNCHANGED currentStep
         /\ last' = OrderEvent(o)
    /\ isLoading' = FALSE
    /\ pending' = Tail(pending)
    /\ UNCHANGED <<variant, recommendation, currentSection, formData, errors>>

\* placeOrder after the await
placeOrderResolved ==
    /\ variant = "api"
    /\ pending # <<>> /\ Head(pending).kind = "order"
    /\ \E o \in OrderOutcomes :
         /\ IF o.status = "ok" /\ o.success
            THEN currentStep' = 7                 \* toast "Order Confirmed!"
            ELSE UNCHANGED currentStep            \* toast "Error"
         /\ last' = OrderEvent(o)
    /\ isLoading' = FALSE
    /\ pending' = Tail(pending)
    /\ UNCHANGED <<variant, recommendation, currentSection, formData, errors>>

\* "Start New Booking" that forgets setRecommendation(null)
startNewBooking_KeepCatalog ==
    /\ Shown(7)
    /\ currentStep' = 1
    /\ currentSection' = NoSection
    /\ formData' = initialFormData
    /\ last' = "startNewBooking"
    /\ UNCHANGED <<variant, recommendation, isLoading, errors, pending>>

\* "Start New Booking" that forgets setCurrentSection(null)
startNewBooking_KeepSection ==
    /\ Shown(7)
    /\ currentStep' = 1
    /\ recommendation' = NullRecommendation
    /\ formData' = initialFormData
    /\ last' = "startNewBooking"
    /\ UNCHANGED <<variant, currentSection, isLoading, errors, pending>>

\* "Start New Booking" that keeps the selected upgrades
startNewBooking_KeepSelection ==
    /\ Shown(7)
    /\ currentStep' = 1
    /\ currentSection' = NoSection
    /\ recommendation' = NullRecommendation
    /\ formData' = [initialFormData EXCEPT !.selectedUpgrades = formData.selectedUpgrades]
    /\ last' = "startNewBooking"
    /\ UNCHANGED <<variant, isLoading, errors, pending>>

\* "Start New Booking" on the confirmation step
startNewBooking ==
    /\ Shown(7)
    /\ currentStep' = 1
    /\ currentSection' = NoSection
    /\ recommendation' = NullRecommendation
    /\ formData' = initialFormData
    /\ last' = "startNewBooking"
    /\ UNCHANGED <<variant, isLoading, errors, pending>>

-----------------------------------------------------------------------------
(* src/pages/Index.tsx: the dummy-data page.  There is no loading panel:    *)
(* the panel of the current step stays on screen while isLoading, and only  *)
(* the buttons with disabled={isLoading} are blocked.                       *)

Shown_D(step) == variant = "dummy" /\ currentStep = step

\* fetchRecommendation of Index.tsx up to setTimeout(..., 1500)
fetchRecommendation_D ==
    /\ isLoading' = TRUE
    /\ pending' = Append(pending, [kind |-> "recommend", from |-> currentStep])

setEmail_D ==
    /\ Shown_D(1)
    /\ \E v \in EmailInputs : formData' = [formData EXCEPT !.email = v]
    /\ last' = "setEmail"
    /\ UNCHANGED <<variant, currentStep, isLoading, recommendation, currentSection,
                   errors, pending>>

setFlightNumber_D ==
    /\ Shown_D(2)
    /\ \E v \in FlightInputs : formData' = [formData EXCEPT !.flightNumber = toUpperCase(v)]
    /\ last' = "setFlightNumber"
    /\ UNCHANGED <<variant, currentStep, isLoading, recommendation, currentSection,
                   errors, pending>>

changeEmail_D ==
    /\ Shown_D(2)
    /\ currentStep' = 1
    /\ last' = "changeEmail"
    /\ UNCHANGED <<variant, isLoading, recommendation, currentSection, formData,
                   errors, pending>>

setTransferField_D ==
    /\ Shown_D(3)
    /\ \/ \E v \in AddressInputs : formData' = [formData EXCEPT !.pickupAddress = v]
       \/ \E v \in AddressInputs : formData' = [formData EXCEPT !.dropoffAddress = v]
       \/ \E v \in ChoiceInputs : formData' = [formData EXCEPT !.passengers = v]
       \/ \E v \in ChoiceInputs : formData' = [formData EXCEPT !.pickupDate = v]
       \/ \E v \in ChoiceInputs : formData' = [formData EXCEPT !.pickupTime = v]
       \/ \E v \in ChoiceInputs : formData' = [formData EXCEPT !.carType = v]
    /\ last' = "setTransferField"
    /\ UNCHANGED <<variant, currentStep, isLoading, recommendation, currentSection,
                   errors, pending>>

\* The Continue buttons of steps 1..3; only the step-3 button has
\* disabled={isLoading}
handleNext_D ==
    /\ variant = "dummy" /\ currentStep \in 1..3
    /\ currentStep = 3 => ~isLoading
    /\ errors' = validateStepErrors_D(currentStep, formData)
    /\ IF validateStep_D(currentStep, formData)
       THEN CASE currentStep = 2 ->
                   /\ currentStep' = 3
                   /\ UNCHANGED <<isLoading, pending>>
              [] currentStep = 3 ->
                   /\ fetchRecommendation_D
                   /\ UNCHANGED currentStep
              [] OTHER ->
                   /\ currentStep' = currentStep + 1
                   /\ UNCHANGED <<isLoading, pending>>
       ELSE UNCHANGED <<currentStep, isLoading, pending>>
    /\ last' = "handleNext"
    /\ UNCHANGED <<variant, recommendation, currentSection, formData>>

\* the setTimeout callback of fetchRecommendation
fetchRecommendationResolved_D ==
    /\ variant = "dummy"
    /\ pending # <<>> /\ Head(pending).kind = "recommend"
    /\ recommendation' = DUMMY_RECOMMENDATION
    /\ isLoading' = FALSE
    /\ currentStep' = 4
    /\ pending' = Tail(pending)
    /\ last' = "recommend:ok"
    /\ UNCHANGED <<variant, currentSection, formData, errors>>

openSection_D ==
    /\ Shown_D(4) /\ currentSection = NoSection /\ ~recommendation.isNull
    /\ \E c \in categoryNames(recommendation) : currentSection' = c
    /\ last' = "openSection"
    /\ UNCHANGED <<variant, currentStep, isLoading, recommendation, formData,
                   errors, pending>>

backToCategories_D ==
    /\ Shown_D(4) /\ currentSection # NoSection /\ ~recommendation.isNull
    /\ currentSection' = NoSection
    /\ last' = "backToCategories"
    /\ UNCHANGED <<variant, currentStep, isLoading, recommendation, formData,
                   errors, pending>>

handleUpgradeToggle_D ==
    /\ variant = "dummy" /\ ~recommendation.isNull
    /\ \E id \in catalogIds(recommendation) :
         /\ \/ /\ currentStep = 4 /\ currentSection # NoSection
               /\ \E i \in 1..Len(sectionItems(recommendation, currentSection)) :
                     sectionItems(recommendation, currentSection)[i]._id = id
            \/ /\ currentStep = 5
               /\ includes(formData.selectedUpgrades, id)
         /\ includes(formData.selectedUpgrades, id)
               \/ Len(formData.selectedUpgrades) < MaxSelected
         /\ formData' = [formData EXCEPT
                            !.selectedUpgrades = toggled(formData.selectedUpgrades, id)]
    /\ last' = "handleUpgradeToggle"
    /\ UNCHANGED <<variant, currentStep, isLoading, recommendation, currentSection,
                   errors, pending>>

\* "Review Order (n)": disabled only when nothing is selected
reviewOrder_D ==
    /\ Shown_D(4) /\ ~recommendation.isNull
    /\ Len(formData.selectedUpgrades) # 0
    /\ currentStep' = 5
    /\ last' = "reviewOrder"
    /\ UNCHANGED <<variant, isLoading, recommendation, currentSection, formData,
                   errors, pending>>

backToUpgrades_D ==
    /\ Shown_D(5) /\ ~recommendation.isNull
    /\ currentStep' = 4
    /\ last' = "backToUpgrades"
    /\ UNCHANGED <<variant, isLoading, recommendation, currentSection, formData,
                   errors, pending>>

\* the order payload placeOrder of Index.tsx writes to the console
orderPayload_D ==
    [recommendation |-> recommendation._id,
     ancillaries    |-> formData.selectedUpgrades,
     email          |-> formData.email]

\* "Place Order" has disabled={isLoading}; placeOrder up to setTimeout(..., 2000).
\* The order payload is only written to the console; the timer carries nothing.
placeOrder_D ==
    /\ Shown_D(5) /\ ~recommendation.isNull /\ ~isLoading
    /\ IF recommendation.isNull \/ Len(formData.selectedUpgrades) = 0
       THEN /\ last' = "placeOrder:noSelection"   \* toast "No Selection"
            /\ UNCHANGED <<isLoading, pending>>
       ELSE /\ isLoading' = TRUE
            /\ pending' = Append(pending, [kind |-> "order", from |-> currentStep])
            /\ last' = "placeOrder"
    /\ UNCHANGED <<variant, currentStep, recommendation, currentSection, formData, errors>>

\* the setTimeout callback of placeOrder
placeOrderResolved_D ==
    /\ variant = "dummy"
    /\ pending # <<>> /\ Head(pending).kind = "order"
    /\ isLoading' = FALSE
    /\ currentStep' = 6
    /\ pending' = Tail(pending)
    /\ last' = "order:ok:true"
    /\ UNCHANGED <<variant, recommendation, currentSection, formData, errors>>

startNewBooking_D ==
    /\ Shown_D(6)
    /\ currentStep' = 1
    /\ currentSection' = NoSection
    /\ recommendation' = NullRecommendation
    /\ formData' = initialFormData
    /\ last' = "startNewBooking"
    /\ UNCHANGED <<variant, isLoading, errors, pending>>

NextApi ==
    \/ setEmail \/ setFlightNumber \/ changeEmail \/ setNeedsTransport
    \/ setTransferField \/ backToTransportInquiry \/ handleNext
    \/ fetchRecommendationResolved \/ openSection \/ backToCategories
    \/ handleUpgradeToggle \/ reviewOrder \/ backToUpgrades
    \/ placeOrder \/ placeOrderResolved \/ startNewBooking

NextDummy ==
    \/ setEmail_D \/ setFlightNumber_D \/ changeEmail_D \/ setTransferField_D
    \/ handleNext_D \/ fetchRecommendationResolved_D \/ openSection_D
    \/ backToCategories_D \/ handleUpgradeToggle_D \/ reviewOrder_D
    \/ backToUpgrades_D \/ placeOrder_D \/ placeOrderResolved_D
    \/ startNewBooking_D

Next == NextApi \/ NextDummy

Spec == Init /\ [][Next]_vars

\* An issued call runs to completion: fetch() settles (response or transport
\* error) and an armed timer fires.
SpecFair ==
    /\ Spec
    /\ WF_vars(fetchRecommendationResolved) /\ WF_vars(placeOrderResolved)
    /\ WF_vars(fetchRecommendationResolved_D) /\ WF_vars(placeOrderResolved_D)

\* a 2xx recommend body whose items have the given categories
GroupCatalog(cs) ==
    [isNull |-> FALSE, _id |-> 100 + Len(cs), hasAncillaries |-> TRUE,
     ancillaries |-> [i \in 1..Len(cs) |->
                        [_id |-> i, price |-> PoolItem(i).price, category |-> cs[i]]]]

GroupCatalogs ==
    UNION {{GroupCatalog(cs) : cs \in [1..n -> CategoryInputs]} : n \in 0..MaxGroupItems}

\* The categories overview right after a successful fetch (wantsTransfer = no)
\* with any catalog the backend can answer; on the dummy-data page, with the
\* built-in recommendation.
InitGrouping ==
    /\ variant \in {"api", "dummy"}
    /\ recommendation \in IF variant = "api" THEN GroupCatalogs
                                              ELSE {DUMMY_RECOMMENDATION}
    /\ currentStep = IF variant = "api" THEN 5 ELSE 4
    /\ isLoading = FALSE
    /\ currentSection = NoSection
    /\ formData = [initialFormData EXCEPT
                      !.email = <<"a", "@", "b", ".", "c", "o">>,
                      !.flightNumber = <<"B", "A", "0">>,
                      !.needsTransport = IF variant = "api" THEN "false" ELSE "null",
                      !.pickupAddress = IF variant = "api" THEN <<>>
                                        ELSE <<"1", "2", "3", "4", "5">>,
                      !.dropoffAddress = IF variant = "api" THEN <<>>
                                         ELSE <<"1", "2", "3", "4", "5">>,
                      !.passengers = IF variant = "api" THEN <<>> ELSE <<"2">>,
                      !.pickupDate = IF variant = "api" THEN <<>> ELSE <<"2">>,
                      !.pickupTime = IF variant = "api" THEN <<>> ELSE <<"2">>,
                      !.carType = IF variant = "api" THEN <<>> ELSE <<"2">>]
    /\ errors = noErrors
    /\ pending = <<>>
    /\ last = "recommend:ok"

\* browsing the groups getCategories() returns
NextGrouping ==
    \/ openSection \/ backToCategories
    \/ openSection_D \/ backToCategories_D

SpecGrouping == InitGrouping /\ [][NextGrouping]_vars

\* every string of at most MaxEmailLen characters of the alphabet
TypedEmails == UNION {[1..n -> EmailAlphabet] : n \in 0..MaxEmailLen}

\* The email step with any typed text in the input
InitEmail ==
    /\ variant \in {"api", "dummy"}
    /\ currentStep = 1
    /\ isLoading = FALSE
    /\ recommendation = NullRecommendation
    /\ currentSection = NoSection
    /\ formData \in {[initialFormData EXCEPT !.email = v] : v \in TypedEmails}
    /\ errors = noErrors
    /\ pending = <<>>
    /\ last = "setEmail"

\* "Continue" on the typed email, and "Change email" back from the flight step
NextEmail ==
    \/ handleNext \/ changeEmail
    \/ handleNext_D \/ changeEmail_D

SpecEmail == InitEmail /\ [][NextEmail]_vars

-----------------------------------------------------------------------------
(* Vocabulary of the properties *)

\* the validation gate of the running page accepts the current step's input
GatePasses ==
    IF variant = "api" THEN validateStep(currentStep, formData)
    ELSE validateStep_D(currentStep, formData)

RecommendFailures == {"recommend:non2xx", "recommend:throw"}
OrderFailures == {"order:non2xx", "order:throw", "order:ok:false"}
AdvanceEvents == {"handleNext", "reviewOrder", "placeOrder", "placeOrder:noSelection"}

\* a recommend call issued from step n is outstanding
FetchPendingFrom(n) ==
    \E i \in 1..Len(pending) : pending[i].kind = "recommend" /\ pending[i].from = n

\* the transitions listed in section 4.2
Transitions42 ==
    { <<"Email", "Flight">>, <<"Flight", "TransferChoice">>,
      <<"TransferChoice", "TransferDetails">>, <<"TransferChoice", "CatalogBrowse">>,
      <<"TransferDetails", "CatalogBrowse">>,
      <<"CatalogBrowse", "CategoryDetail">>, <<"CategoryDetail", "CatalogBrowse">>,
      <<"CatalogBrowse", "Review">>, <<"CategoryDetail", "Review">>,
      <<"Review", "Confirmed">>, <<"Review", "CatalogBrowse">>,
      <<"Confirmed", "Email">> }

\* the step changes of the code that section 4.2 does not list
BackTransitions ==
    { <<"Flight", "Email">>,               \* "Change email"
      <<"Review", "CategoryDetail">> }     \* "Back to Upgrades" with a section open

ApiOnlyTransitions ==
    { <<"TransferDetails", "TransferChoice">> }   \* "<- Back"

DummyOnlyTransitions ==
    { <<"Flight", "TransferDetails">>,     \* the page has no transfer-choice step
      <<"CatalogBrowse", "Confirmed">>,    \* the order timer fires after
      <<"CategoryDetail", "Confirmed">> }  \*   "Back to Upgrades"

-----------------------------------------------------------------------------
(* C1: an advance attempt (handleNext) whose validation fails leaves         *)
(* currentStep unchanged, leaves at least one entry in validationErrors and  *)
(* issues no recommendation or order call.                                   *)
C1_FailedAdvanceIsNoOp ==
    [][ (last' = "handleNext" /\ ~GatePasses)
          => /\ currentStep' = currentStep
             /\ DOMAIN errors' # {}
             /\ pending' = pending ]_vars

C1_Witness ==
    /\ last = "handleNext" /\ DOMAIN errors # {}
    /\ variant = "api" /\ currentStep = 4 /\ pending = <<>>

C3_NoSkipsTransferDetails ==
    [][ /\ (variant = "api" /\ Step = "TransferChoice"
              /\ formData.needsTransport = "false" /\ last' = "handleNext")
           => /\ Len(pending') = Len(pending) + 1
              /\ pending'[Len(pending')].kind = "recommend"
              /\ Step' = "TransferChoice"
        /\ (variant = "api" /\ FetchPendingFrom(3))
           => /\ Step = "TransferChoice"
              /\ Step' \in {"TransferChoice", "CatalogBrowse"}
              /\ last' = "recommend:ok" => Step' = "CatalogBrowse"
              /\ Step' = "CatalogBrowse" => last' = "recommend:ok" ]_vars

C3_Witness ==
    /\ variant = "api" /\ last = "recommend:ok" /\ Step = "CatalogBrowse"
    /\ formData.needsTransport = "false"

(* C4: isBusy is true in every state in which a boundary call is             *)
(* outstanding, and the step change made by a resolution (to CatalogBrowse   *)
(* or Confirmed) starts from a state in which isBusy is true.                *)
C4_BusyWhileOutstanding ==
    /\ [](pending # <<>> => isLoading)
    /\ [][ (last' \in {"recommend:ok", "order:ok:true"} /\ currentStep' # currentStep)
             => isLoading ]_vars

C4_Witness ==
    /\ last = "order:ok:true" /\ Step = "Confirmed" /\ ~isLoading /\ pending = <<>>

(* C5: at most one boundary call is outstanding at any time.                 *)
C5_OneOutstandingCall == Len(pending) <= 1

C5_Witness ==
    /\ Len(pending) = 1 /\ pending[1].kind = "order" /\ last = "placeOrder"

(* C6 as stated: while isBusy, no user-initiated advance action (Continue,   *)
(* Review Order, Place Order) changes currentStep or issues a call, on       *)
(* either page.                                                              *)
C6_NoAdvanceWhileBusy ==
    [][ (isLoading /\ last' \in AdvanceEvents)
          => (currentStep' = currentStep /\ pending' = pending) ]_vars

(* C7: when the recommendation call fails, Catalog is still unset, isBusy    *)
(* is false and currentStep is the step that triggered the fetch.            *)
C7_FetchFailureLeavesStep ==
    [][ last' \in RecommendFailures
          => /\ recommendation'.isNull
             /\ ~isLoading'
             /\ currentStep' = currentStep
             /\ currentStep' = Head(pending).from
             /\ Step' \in {"TransferChoice", "TransferDetails"} ]_vars

C7_Witness ==
    /\ last \in RecommendFailures /\ Step = "TransferDetails"
    /\ ~isLoading /\ recommendation.isNull /\ pending = <<>>

(* C8: a failed order call (non-2xx, thrown, or 2xx with a false success     *)
(* flag) leaves the controller on Review with isBusy false; the step         *)
(* becomes Confirmed only by a 2xx response whose success flag is true.      *)
C8_OrderFailureStaysOnReview ==
    [][ /\ last' \in OrderFailures => (Step' = "Review" /\ Step = "Review" /\ ~isLoading')
        /\ (Step' = "Confirmed" /\ Step # "Confirmed") => last' = "order:ok:true" ]_vars

C8_Witness ==
    /\ last = "order:ok:false" /\ Step = "Review" /\ ~isLoading /\ pending = <<>>

(* C9: "place order" with an empty selection issues no order call, does not  *)
(* set isBusy and leaves currentStep = Review.                               *)
C9_EmptySelectionRejected ==
    [][ (last' \in {"placeOrder", "placeOrder:noSelection"}
           /\ Len(formData.selectedUpgrades) = 0)
          => /\ pending' = pending
             /\ ~isLoading'
             /\ Step' = "Review" ]_vars

C9_Witness ==
    /\ last = "placeOrder:noSelection" /\ Step = "Review"
    /\ Len(formData.selectedUpgrades) = 0 /\ ~isLoading /\ pending = <<>>

(* C10: every id in selectedAncillaryIds is the id of an item of the         *)
(* current Catalog; the selection is empty whenever Catalog is unset.        *)
C10_SelectionWithinCatalog ==
    /\ \A i \in 1..Len(formData.selectedUpgrades) :
          formData.selectedUpgrades[i] \in catalogIds(recommendation)
    /\ recommendation.isNull => formData.selectedUpgrades = <<>>

C10_Witness ==
    /\ last = "handleUpgradeToggle" /\ Len(formData.selectedUpgrades) = 2

(* C11: after "start over" from Confirmed, currentStep = Email, every       *)
(* Session field has its initial value (email, flightNumber and the six     *)
(* transfer fields empty, wantsTransfer unset, no selection, no active       *)
(* category, no validation errors, isBusy false) and Catalog is unset.       *)
C11_StartOverResetsSession ==
    [][ last' = "startNewBooking"
          => /\ Step = "Confirmed" /\ Step' = "Email" /\ currentStep' = 1
             /\ formData'.email = <<>> /\ formData'.flightNumber = <<>>
             /\ formData'.needsTransport = "null"
             /\ formData'.pickupAddress = <<>> /\ formData'.dropoffAddress = <<>>
             /\ formData'.passengers = <<>> /\ formData'.pickupDate = <<>>
             /\ formData'.pickupTime = <<>> /\ formData'.carType = <<>>
             /\ formData'.selectedUpgrades = <<>>
             /\ currentSection' = NoSection
             /\ DOMAIN errors' = {}
             /\ ~isLoading'
             /\ recommendation'.isNull ]_vars

C11_Witness ==
    /\ last = "startNewBooking" /\ currentStep = 1 /\ formData.email = <<>>

\* the ids a selection holds
Members(sel) == {sel[i] : i \in 1..Len(sel)}

\* an id that no item of the catalog has
StrayId(rec) ==
    CHOOSE n \in 1..(Len(rec.ancillaries) + 1) : n \notin catalogIds(rec)

RECURSIVE SelectedPriceSum(_, _, _)
SelectedPriceSum(ancillaries, ids, n) ==
    IF n = 0 THEN 0
    ELSE SelectedPriceSum(ancillaries, ids, n - 1)
           + (IF ancillaries[n]._id \in ids THEN ancillaries[n].price ELSE 0)

WantsTransfer ==
    IF variant = "api"
    THEN CASE formData.needsTransport = "true"  -> "yes"
           [] formData.needsTransport = "false" -> "no"
           [] OTHER                             -> "unset"
    ELSE "unset"

AllTransferFieldsEmpty ==
    /\ formData.pickupAddress = <<>> /\ formData.dropoffAddress = <<>>
    /\ formData.passengers = <<>> /\ formData.pickupDate = <<>>
    /\ formData.pickupTime = <<>> /\ formData.carType = <<>>

\* the step made issues a recommendation call
IssuesRecommend ==
    /\ Len(pending') = Len(pending) + 1
    /\ pending'[Len(pending')].kind = "recommend"

(* C14 as stated: the transfer-detail fields are required only when          *)
(* wantsTransfer = yes; on both pages an advance from the step that leads to *)
(* the recommendation fetch, taken without a wish for a transfer and with    *)
(* all six transfer fields empty, passes validation and issues the fetch.    *)
C14_TransferFieldsOptional ==
    [][ (last' = "handleNext" /\ Step \in {"TransferChoice", "TransferDetails"}
           /\ WantsTransfer # "yes" /\ AllTransferFieldsEmpty)
          => (DOMAIN errors' = {} /\ IssuesRecommend) ]_vars

(* C15 as stated: going back from Review always lands on CatalogBrowse, the  *)
(* category overview with activeCategory unset.                              *)
C15_BackLandsOnOverview ==
    [][ last' = "backToUpgrades"
          => (Step' = "CatalogBrowse" /\ currentSection' = NoSection) ]_vars

\* a recommendation body with the recommendation id and the ancillaries list
\* (_id = 0 stands for a missing id)
WellFormed(rec) == ~rec.isNull /\ rec.hasAncillaries /\ rec._id # 0

(* C16 as stated: a 2xx recommendation response that is malformed is         *)
(* treated as a failure: the success path (Catalog set, step moved to        *)
(* CatalogBrowse) is taken only with a well-formed body.                     *)
C16_MalformedIsFailure ==
    [][ (last' = "recommend:ok" \/ recommendation' # recommendation)
          => (WellFormed(recommendation') \/ last' = "startNewBooking") ]_vars

(* C17: within one session the Catalog is set by at most one successful      *)
(* recommendation fetch, is not modified afterwards until the reset, and no  *)
(* recommendation call is issued once it is set.                             *)
C17_CatalogFetchedOnce ==
    [][ /\ ~recommendation.isNull
           => /\ recommendation' = recommendation
                 \/ (last' = "startNewBooking" /\ recommendation'.isNull)
              /\ ~IssuesRecommend
        /\ last' = "recommend:ok"
           => (recommendation.isNull /\ Step \in {"TransferChoice", "TransferDetails"})
        /\ recommendation' # recommendation
           => last' \in {"recommend:ok", "startNewBooking"} ]_vars

C17_Witness ==
    /\ Step = "Confirmed" /\ ~recommendation.isNull /\ pending = <<>>

(* C18: every failure path of a boundary call leaves email, flightNumber,    *)
(* wantsTransfer, transferDetails, selectedAncillaryIds, activeCategory,     *)
(* Catalog and currentStep as they were when the call was issued: nothing    *)
(* but the resolution happens while the call is outstanding, and a failed    *)
(* resolution changes only isBusy (cleared) and the notification.            *)
C18_FailureChangesOnlyBusy ==
    [][ /\ (variant = "api" /\ pending # <<>>) => pending' = Tail(pending)
        /\ last' \in RecommendFailures \cup OrderFailures
           => /\ UNCHANGED <<formData, currentSection, recommendation, currentStep,
                             errors, variant>>
              /\ isLoading /\ ~isLoading' ]_vars

C18_Witness ==
    /\ last = "order:non2xx" /\ Step = "Review" /\ ~isLoading
    /\ Len(formData.selectedUpgrades) = 2

(* C19: under fairness of call resolution every issued call resolves and     *)
(* isBusy = true always leads to isBusy = false.                             *)
C19_BusyEventuallyCleared ==
    (isLoading ~> ~isLoading) /\ (pending # <<>> ~> pending = <<>>)

C19_Witness ==
    /\ last = "order:throw" /\ ~isLoading /\ pending = <<>>

(* C20: Review is entered only by the "request review" action, taken in      *)
(* CatalogBrowse or CategoryDetail with at least one selected id; the action *)
(* is never taken with an empty selection.                                   *)
C20_ReviewNeedsSelection ==
    [][ /\ (Step' = "Review" /\ Step # "Review")
           => /\ last' = "reviewOrder"
              /\ Step \in {"CatalogBrowse", "CategoryDetail"}
        /\ last' = "reviewOrder"
           => /\ Len(formData.selectedUpgrades) >= 1
              /\ formData'.selectedUpgrades = formData.selectedUpgrades ]_vars

C20_Witness ==
    /\ last = "reviewOrder" /\ Step = "Review" /\ Len(formData.selectedUpgrades) = 1

(* C21: selectedAncillaryIds changes by a toggle only while the step is     *)
(* CatalogBrowse, CategoryDetail or Review; at Email, Flight, TransferChoice, *)
(* TransferDetails and Confirmed no toggle happens, and the only change of   *)
(* the selection there is the reset of "start over".                         *)
C21_ToggleOnlyOnCatalogSteps ==
    [][ /\ last' = "handleUpgradeToggle"
           => /\ Step \in {"CatalogBrowse", "CategoryDetail", "Review"}
              /\ formData'.selectedUpgrades
                    \in {toggled(formData.selectedUpgrades, id) :
                            id \in catalogIds(recommendation)}
        /\ formData'.selectedUpgrades # formData.selectedUpgrades
           => \/ /\ last' = "handleUpgradeToggle"
                 /\ Step \in {"CatalogBrowse", "CategoryDetail", "Review"}
              \/ /\ last' = "startNewBooking" /\ Step = "Confirmed"
                 /\ formData'.selectedUpgrades = <<>> ]_vars

C21_Witness ==
    /\ last = "handleUpgradeToggle" /\ Step = "Review"
    /\ Len(formData.selectedUpgrades) = 1

(* C22: every order call carries the recommendation id of the Catalog       *)
(* fetched in the current session, exactly the ids selected at the moment    *)
(* "place order" is invoked, and the session email; the payload of an        *)
(* outstanding order still equals those values.  (Index.tsx issues no call:  *)
(* the payload it logs is built from the same values.)                       *)
C22_OrderCarriesSession ==
    /\ [][ (last' = "placeOrder" /\ variant = "api")
             => LET b == pending'[Len(pending')].body
                IN  /\ pending'[Len(pending')].kind = "order"
                    /\ ~recommendation.isNull
                    /\ b.recommendation = recommendation._id
                    /\ b.ancillaries = formData.selectedUpgrades
                    /\ Members(b.ancillaries) = Members(formData.selectedUpgrades)
                    /\ Members(b.ancillaries) \subseteq catalogIds(recommendation)
                    /\ b.email = formData.email /\ emailSchema(b.email) ]_vars
    /\ [][ (last' = "placeOrder" /\ variant = "dummy")
             => /\ orderPayload_D.recommendation = DUMMY_RECOMMENDATION._id
                /\ orderPayload_D.ancillaries # <<>>
                /\ Members(orderPayload_D.ancillaries) \subseteq catalogIds(recommendation)
                /\ emailSchema(orderPayload_D.email) ]_vars
    /\ [](\A i \in 1..Len(pending) :
            (variant = "api" /\ pending[i].kind = "order")
              => /\ pending[i].body.recommendation = recommendation._id
                 /\ pending[i].body.ancillaries = formData.selectedUpgrades
                 /\ pending[i].body.email = formData.email)

C22_Witness ==
    /\ variant = "api" /\ last = "placeOrder" /\ Len(pending) = 1
    /\ pending[1].body.recommendation = 102
    /\ Len(pending[1].body.ancillaries) = 1

\* the six car transfer fields of the form
TransferKeys ==
    {"pickupAddress", "dropoffAddress", "passengers", "pickupDate", "pickupTime",
     "carType"}

\* a request body that carries the entered transfer fields
CarriesTransferDetails(b) ==
    /\ TransferKeys \subseteq DOMAIN b
    /\ \A k \in TransferKeys : b[k] = formData[k]

(* C23 as stated: the recommendation request issued from TransferDetails     *)
(* (wantsTransfer = yes, details valid) carries the entered transfer fields  *)
(* with email and flight number; the one issued with wantsTransfer = no      *)
(* carries only email and flight number.                                     *)
C23_RequestCarriesTransfer ==
    [][ (variant = "api" /\ last' = "handleNext" /\ IssuesRecommend)
          => LET b == pending'[Len(pending')].body
             IN  /\ b.email = formData.email
                 /\ b.flight_number = formData.flightNumber
                 /\ IF WantsTransfer = "yes"
                    THEN Step = "TransferDetails" /\ CarriesTransferDetails(b)
                    ELSE DOMAIN b = {"email", "flight_number"} ]_vars

\* the rule of section 4.1 for transfer field k fails on the form
FailsRule(k) ==
    IF k \in {"pickupAddress", "dropoffAddress"} THEN Len(formData[k]) < 5
    ELSE formData[k] = <<>>

(* C24: a validation attempt at TransferDetails leaves in validationErrors   *)
(* exactly one entry for each of the six fields that fails its rule (address *)
(* shorter than 5; passenger count, date, time or car type empty), none for  *)
(* a field that passes, all in the same attempt.                             *)
C24_AllTransferErrorsReported ==
    [][ (last' = "handleNext" /\ Step = "TransferDetails")
          => /\ DOMAIN errors' = {k \in TransferKeys : FailsRule(k)}
             /\ \A k \in DOMAIN errors' : errors'[k] = Message(k)
             /\ (DOMAIN errors' # {}) = ~GatePasses ]_vars

C24_Witness ==
    /\ variant = "api" /\ last = "handleNext" /\ Step = "TransferDetails"
    /\ formData.needsTransport = "true"
    /\ DOMAIN errors = {"dropoffAddress", "pickupDate", "carType"}

\* the error keys the validation of the current step can produce
StepKeys ==
    CASE Step = "Email"           -> {"email"}
      [] Step = "Flight"          -> {"flightNumber"}
      [] Step = "TransferChoice"  -> {"needsTransport"}
      [] Step = "TransferDetails" -> TransferKeys
      [] OTHER                    -> {}

\* the rule of section 4.1 for key k fails on the form
KeyFails(k) ==
    CASE k = "email"          -> ~emailSchema(formData.email)
      [] k = "flightNumber"   -> Len(formData.flightNumber) < 3
      [] k = "needsTransport" -> formData.needsTransport = "null"
      [] OTHER                -> FailsRule(k)

(* C25: after any advance attempt validationErrors holds only the errors of  *)
(* that attempt: keys of the current step whose rule fails now, and nothing  *)
(* when the attempt passed; never an entry of an earlier attempt or step.    *)
C25_ErrorsClearedEachAttempt ==
    [][ last' = "handleNext"
          => /\ DOMAIN errors' \subseteq StepKeys
             /\ \A k \in DOMAIN errors' : KeyFails(k)
             /\ GatePasses => errors' = noErrors
             /\ ~GatePasses => DOMAIN errors' # {} ]_vars

C25_Witness ==
    /\ variant = "api" /\ last = "handleNext" /\ Step = "TransferChoice"
    /\ formData.needsTransport = "false" /\ Len(pending) = 1
    /\ formData.pickupAddress = <<"1", "2", "3", "4">>
    /\ errors = noErrors

\* the position at which category key c is first seen in the catalog
FirstSeen(ancillaries, c) ==
    CHOOSE i \in 1..Len(ancillaries) :
        /\ categoryKey(ancillaries[i]) = c
        /\ \A j \in 1..(i - 1) : categoryKey(ancillaries[j]) # c

\* the positions in the catalog of the items of a group, in group order
PositionsOf(ancillaries, items) ==
    [k \in 1..Len(items) |->
        CHOOSE i \in 1..Len(ancillaries) : ancillaries[i] = items[k]]

(* C26 as stated: the groups partition the catalog items by category, come   *)
(* in the order in which their category is first seen in the catalog (for    *)
(* every category string, also those that look like integers), and the items *)
(* of a group keep their catalog order.                                      *)
C26_GroupsInFirstSeenOrder ==
    (~recommendation.isNull /\ recommendation.hasAncillaries)
      => LET anc == recommendation.ancillaries
             g   == getCategories(recommendation)
         IN  /\ \A i \in 1..Len(anc) :
                   Cardinality({<<j, k>> \in (1..Len(g)) \X (1..Len(anc)) :
                                   k <= Len(g[j][2]) /\ g[j][2][k] = anc[i]}) = 1
             /\ \A j \in 1..Len(g) :
                   /\ g[j][2] # <<>>
                   /\ \A k \in 1..Len(g[j][2]) : categoryKey(g[j][2][k]) = g[j][1]
                   /\ \A k, l \in 1..Len(g[j][2]) :
                         k < l => PositionsOf(anc, g[j][2])[k] < PositionsOf(anc, g[j][2])[l]
             /\ \A j, k \in 1..Len(g) :
                   j < k => FirstSeen(anc, g[j][1]) < FirstSeen(anc, g[k][1])

Atext == Letters \cup Digits \cup {"!", "'", "+", "-", "_"}

\* RFC 5322 dot-atom: atoms of atext separated by single dots
DotAtom(t) ==
    /\ Len(t) >= 1
    /\ \A i \in 1..Len(t) : t[i] \in Atext \cup {"."}
    /\ t[1] # "." /\ t[Len(t)] # "."
    /\ \A i \in 1..(Len(t) - 1) : ~(t[i] = "." /\ t[i + 1] = ".")

\* RFC 1123 host name: labels of letters, digits and inner hyphens
HostName(d) ==
    /\ DotAtom(d)
    /\ \A i \in 1..Len(d) : d[i] \in Letters \cup Digits \cup {"-", "."}
    /\ d[1] # "-" /\ d[Len(d)] # "-"
    /\ \A i \in 1..(Len(d) - 1) :
          ~(d[i] = "." /\ d[i + 1] = "-") /\ ~(d[i] = "-" /\ d[i + 1] = ".")

\* a valid email address: dot-atom local part, "@", host name
ValidAddress(s) ==
    /\ Cardinality(AtPositions(s)) = 1
    /\ LET at == CHOOSE i \in AtPositions(s) : TRUE
       IN  /\ DotAtom(SubSeq(s, 1, at - 1))
           /\ HostName(SubSeq(s, at + 1, Len(s)))

\* a valid address whose local part has only letters, digits, "_", "+", "-"
\* and single inner dots, and whose host name has at least two labels, the
\* last one of two or more letters
PlainAddress(s) ==
    /\ ValidAddress(s)
    /\ LET at     == CHOOSE i \in AtPositions(s) : TRUE
           local  == SubSeq(s, 1, at - 1)
           domain == SubSeq(s, at + 1, Len(s))
           dots   == DotPositions(domain)
       IN  /\ \A i \in 1..Len(local) : local[i] \in Letters \cup Digits \cup {"_", "+", "-", "."}
           /\ dots # {}
           /\ \E i \in dots :
                 /\ \A j \in dots : j <= i
                 /\ Len(domain) - i >= 2
                 /\ \A j \in (i + 1)..Len(domain) : domain[j] \in Letters

(* C28 as stated: validation of the Email step leaves no error keyed email   *)
(* for every string that is a valid email address, and an error keyed email  *)
(* for every string without "@" (the empty string included).                 *)
C28_ValidEmailsAccepted ==
    [][ (last' = "handleNext" /\ Step = "Email")
          => /\ ValidAddress(formData.email) => "email" \notin DOMAIN errors'
             /\ AtPositions(formData.email) = {} => "email" \in DOMAIN errors' ]_vars

(* C28 amended: validation of the Email step leaves no error keyed email and *)
(* advances for every address local@domain whose local part has only         *)
(* letters, digits, "_", "+", "-" and single inner dots and whose domain has *)
(* at least two labels, the last of two or more letters; it leaves an error  *)
(* keyed email and stays for every string without "@" (the empty string      *)
(* included).                                                                *)
C28_PlainEmailsAccepted ==
    [][ (last' = "handleNext" /\ Step = "Email")
          => /\ PlainAddress(formData.email)
                  => ("email" \notin DOMAIN errors' /\ Step' = "Flight")
             /\ AtPositions(formData.email) = {}
                  => ("email" \in DOMAIN errors' /\ Step' = "Email") ]_vars

C28_Witness ==
    /\ last = "handleNext" /\ Step = "Flight" /\ errors = noErrors
    /\ formData.email = <<"a", "@", "1", ".", "a", "a">>

\* The stages of the end-to-end scenario on the API-backed page: the form of
\* the session, the step, the catalog and the outstanding call at each stage.
ScenarioEmail  == <<"a", "@", "b", ".", "c", "o">>
ScenarioFlight == <<"B", "A", "0">>

ScenarioForm(email, flight, choice, sel) ==
    formData = [initialFormData EXCEPT !.email = email, !.flightNumber = flight,
                                       !.needsTransport = choice,
                                       !.selectedUpgrades = sel]

Quiet == variant = "api" /\ ~isLoading /\ pending = <<>> /\ errors = noErrors

ScStart ==
    /\ Quiet /\ Step = "Email" /\ recommendation.isNull /\ currentSection = NoSection
    /\ ScenarioForm(<<>>, <<>>, "null", <<>>)

ScEmailTyped ==
    /\ Quiet /\ Step = "Email" /\ recommendation.isNull
    /\ ScenarioForm(ScenarioEmail, <<>>, "null", <<>>)

ScFlight ==
    /\ Quiet /\ Step = "Flight" /\ recommendation.isNull
    /\ ScenarioForm(ScenarioEmail, <<>>, "null", <<>>)

ScFlightTyped ==
    /\ Quiet /\ Step = "Flight" /\ recommendation.isNull
    /\ ScenarioForm(ScenarioEmail, ScenarioFlight, "null", <<>>)

ScChoice ==
    /\ Quiet /\ Step = "TransferChoice" /\ recommendation.isNull
    /\ ScenarioForm(ScenarioEmail, ScenarioFlight, "null", <<>>)

ScChoiceNo ==
    /\ Quiet /\ Step = "TransferChoice" /\ recommendation.isNull
    /\ ScenarioForm(ScenarioEmail, ScenarioFlight, "false", <<>>)

ScFetching ==
    /\ variant = "api" /\ isLoading /\ Step = "TransferChoice" /\ recommendation.isNull
    /\ Len(pending) = 1 /\ pending[1].kind = "recommend"
    /\ ScenarioForm(ScenarioEmail, ScenarioFlight, "false", <<>>)

\* the catalog of the scenario: an item of 20.70 in transportation, one in
\* insurance
ScCatalog ==
    /\ ~recommendation.isNull /\ recommendation.hasAncillaries
    /\ categoryNames(recommendation) = {"transportation", "insurance"}
    /\ \E i \in 1..Len(recommendation.ancillaries) :
          /\ recommendation.ancillaries[i]._id = 1
          /\ recommendation.ancillaries[i].price = 2070

ScBrowse ==
    /\ Quiet /\ Step = "CatalogBrowse" /\ ScCatalog /\ last = "recommend:ok"
    /\ ScenarioForm(ScenarioEmail, ScenarioFlight, "false", <<>>)

ScCategory ==
    /\ Quiet /\ Step = "CategoryDetail" /\ ScCatalog
    /\ currentSection = "transportation"
    /\ ScenarioForm(ScenarioEmail, ScenarioFlight, "false", <<>>)

ScSelected ==
    /\ Quiet /\ Step = "CategoryDetail" /\ ScCatalog
    /\ ScenarioForm(ScenarioEmail, ScenarioFlight, "false", <<1>>)

ScReview ==
    /\ Quiet /\ Step = "Review" /\ ScCatalog /\ last = "reviewOrder"
    /\ ScenarioForm(ScenarioEmail, ScenarioFlight, "false", <<1>>)
    /\ calculateTotal(recommendation, formData.selectedUpgrades) = 2070

ScOrdering ==
    /\ variant = "api" /\ isLoading /\ Step = "Review" /\ ScCatalog
    /\ Len(pending) = 1 /\ pending[1].kind = "order"
    /\ ScenarioForm(ScenarioEmail, ScenarioFlight, "false", <<1>>)

ScConfirmed ==
    /\ Quiet /\ Step = "Confirmed" /\ ScCatalog /\ last = "order:ok:true"
    /\ ScenarioForm(ScenarioEmail, ScenarioFlight, "false", <<1>>)

ScReset ==
    /\ Quiet /\ Step = "Email" /\ currentStep = 1 /\ recommendation.isNull
    /\ currentSection = NoSection /\ formData = initialFormData
    /\ last = "startNewBooking"

(* C29: the end-to-end scenario is a run: from the initial state each stage  *)
(* can take the step to the next one: valid email, valid flight, transfer    *)
(* choice "no", successful fetch of a catalog with categories transportation *)
(* and insurance, one item of 20.70 selected, Review with total 20.70,       *)
(* successful order, Confirmed, and "start over" back to Email with the      *)
(* Session at its initial values.                                            *)
C29_ScenarioIsARun ==
    /\ (variant = "api" /\ last = "init") => ScStart
    /\ ScStart       => ENABLED (setEmail /\ ScEmailTyped')
    /\ ScEmailTyped  => ENABLED (handleNext /\ ScFlight')
    /\ ScFlight      => ENABLED (setFlightNumber /\ ScFlightTyped')
    /\ ScFlightTyped => ENABLED (handleNext /\ ScChoice')
    /\ ScChoice      => ENABLED (setNeedsTransport /\ ScChoiceNo')
    /\ ScChoiceNo    => ENABLED (handleNext /\ ScFetching')
    /\ ScFetching    => ENABLED (fetchRecommendationResolved /\ ScBrowse')
    /\ ScBrowse      => ENABLED (openSection /\ ScCategory')
    /\ ScCategory    => ENABLED (handleUpgradeToggle /\ ScSelected')
    /\ ScSelected    => ENABLED (reviewOrder /\ ScReview')
    /\ ScReview      => ENABLED (placeOrder /\ ScOrdering')
    /\ ScOrdering    => ENABLED (placeOrderResolved /\ ScConfirmed')
    /\ ScConfirmed   => ENABLED (startNewBooking /\ ScReset')

C29_Witness ==
    /\ ScConfirmed
    /\ calculateTotal(recommendation, formData.selectedUpgrades) = 2070

\* the step made is the resolution of the oldest outstanding call
Resolves == pending # <<>> /\ pending' = Tail(pending)

(* C30 as stated: when a boundary call resolves, currentStep is still the    *)
(* step from which the call was issued (TransferChoice or TransferDetails    *)
(* for a fetch, Review for an order), on both pages; a resolution never      *)
(* moves the wizard to CatalogBrowse or Confirmed from any other step.       *)
C30_ResolvesAtIssuingStep ==
    [][ Resolves
          => /\ currentStep = Head(pending).from
             /\ Head(pending).kind = "recommend"
                  => Step \in {"TransferChoice", "TransferDetails"}
             /\ Head(pending).kind = "order" => Step = "Review"
             /\ Step' = "Confirmed" => Step = "Review" ]_vars

\* an order call (or order timer) is outstanding
OrderPending == pending # <<>> /\ Head(pending).kind = "order"

(* C31 as stated: whenever the step is Confirmed the selection is non-empty  *)
(* and equals the ids submitted in the order call that led there; between    *)
(* issuing the order and "start over" the selection does not change, on      *)
(* both pages.                                                               *)
C31_ConfirmedSelectionIsOrdered ==
    /\ [](Step = "Confirmed" => formData.selectedUpgrades # <<>>)
    /\ [][ OrderPending
             => formData'.selectedUpgrades = formData.selectedUpgrades ]_vars
    /\ [][ (Step = "Confirmed" /\ last' # "startNewBooking")
             => formData'.selectedUpgrades = formData.selectedUpgrades ]_vars
    /\ [][ (variant = "api" /\ OrderPending /\ Step' = "Confirmed")
             => Members(Head(pending).body.ancillaries)
                  = Members(formData'.selectedUpgrades) ]_vars

(* C32 as stated: no reachable state with isBusy = false is a dead end: some *)
(* user action is enabled in it, also after a successful fetch that returned *)
(* a catalog with no items.                                                  *)
C32_NoDeadEnd == ~isLoading => ENABLED Next

(* C33 as stated: the CategoryDetail view opened for a category that         *)
(* getCategories returns lists exactly the items of that group, also for     *)
(* the group "other" of the items whose category is empty or missing.        *)
C33_DetailListsGroup ==
    (Step = "CategoryDetail" /\ ~recommendation.isNull /\ recommendation.hasAncillaries)
      => LET g == getCategories(recommendation)
         IN  \E j \in 1..Len(g) :
                /\ g[j][1] = currentSection
                /\ sectionItems(recommendation, currentSection) = g[j][2]

\* the steps that show the catalog, the review and the confirmation
CatalogSteps == {"CatalogBrowse", "CategoryDetail", "Review", "Confirmed"}

(* C34 as stated: Catalog is set exactly when the step is CatalogBrowse,     *)
(* CategoryDetail, Review or Confirmed: unset at Email, Flight,              *)
(* TransferChoice and TransferDetails, set at every later step.              *)
C34_CatalogSetExactlyAfterFetch ==
    (Step \in CatalogSteps) <=> ~recommendation.isNull

(* C35: on the API-backed page, whenever the step is TransferDetails,        *)
(* wantsTransfer = yes: the step is entered only from TransferChoice with    *)
(* wantsTransfer = yes, and wantsTransfer does not change while on it, so    *)
(* validation at that step always checks the transfer fields.                *)
C35_DetailsOnlyWithTransfer ==
    /\ []((variant = "api" /\ Step = "TransferDetails") => WantsTransfer = "yes")
    /\ [][ variant = "api"
             => /\ (Step' = "TransferDetails" /\ Step # "TransferDetails")
                    => /\ Step = "TransferChoice" /\ WantsTransfer = "yes"
                       /\ last' = "handleNext"
                /\ (Step = "TransferDetails" /\ Step' = "TransferDetails")
                    => formData'.needsTransport = formData.needsTransport
                /\ (Step = "TransferDetails" /\ last' = "handleNext")
                    => DOMAIN errors' = carTransferIssues(formData) ]_vars

C35_Witness ==
    /\ variant = "api" /\ Step = "TransferDetails" /\ last = "recommend:throw"
    /\ formData.needsTransport = "true" /\ ~isLoading

\* the step made issues a boundary call (or arms its timer)
IssuesCall == Len(pending') = Len(pending) + 1

(* C36: every recommendation and order call is issued with a stored email    *)
(* that passes the email rule and a stored flightNumber of length >= 3; past *)
(* the Email step the email is valid and past the Flight step both are, also *)
(* after "Change email".                                                     *)
C36_CallsCarryValidIdentity ==
    /\ [](Step # "Email" => emailSchema(formData.email))
    /\ [](Step \notin {"Email", "Flight"} => Len(formData.flightNumber) >= 3)
    /\ [][ IssuesCall
             => /\ emailSchema(formData.email) /\ Len(formData.flightNumber) >= 3
                /\ formData' = formData
                /\ variant = "api"
                     => LET c == pending'[Len(pending')]
                        IN  /\ c.body.email = formData.email
                            /\ c.kind = "recommend"
                                 => c.body.flight_number = formData.flightNumber ]_vars

C36_Witness ==
    /\ variant = "api" /\ Len(pending) = 1 /\ pending[1].kind = "recommend"
    /\ pending[1].from = 4 /\ emailSchema(pending[1].body.email)
    /\ Len(pending[1].body.flight_number) = 3

(* C37: validationErrors is empty whenever the step is CatalogBrowse,        *)
(* CategoryDetail, Review or Confirmed, whatever path led there, and also    *)
(* while the fetch that leads there is outstanding.                          *)
C37_NoErrorsPastTheForm ==
    /\ Step \in CatalogSteps => errors = noErrors
    /\ pending # <<>> => errors = noErrors

C37_Witness ==
    /\ variant = "api" /\ Step = "CatalogBrowse" /\ last = "recommend:ok"
    /\ formData.needsTransport = "false"
    /\ formData.pickupAddress = <<"1", "2", "3", "4">>
    /\ errors = noErrors

(* C38: selectedAncillaryIds never holds the same id twice, before and      *)
(* after any further toggle: its length is the number of distinct selected   *)
(* ids, and the total adds the price of each selected item once.             *)
C38_NoDuplicateSelection ==
    LET sel == formData.selectedUpgrades
    IN  /\ Len(sel) = Cardinality(Members(sel))
        /\ \A id \in catalogIds(recommendation) :
              Len(toggled(sel, id)) = Cardinality(Members(toggled(sel, id)))
        /\ (~recommendation.isNull /\ recommendation.hasAncillaries)
              => calculateTotal(recommendation, sel)
                   = SelectedPriceSum(recommendation.ancillaries, Members(sel),
                                      Len(recommendation.ancillaries))

C38_Witness ==
    /\ variant = "dummy" /\ last = "handleUpgradeToggle" /\ Step = "CategoryDetail"
    /\ Len(formData.selectedUpgrades) = 2
    /\ Cardinality(Members(formData.selectedUpgrades)) = 2

\* the form apart from the selection
FormFields(f) == [f EXCEPT !.selectedUpgrades = <<>>]

(* C39: a toggle changes the membership of exactly one id and nothing else   *)
(* (other ids, currentStep, activeCategory, Catalog, isBusy, errors, email,  *)
(* flightNumber, wantsTransfer, transfer details); picking a category and    *)
(* going back to the overview change only activeCategory.                    *)
C39_ToggleAndBrowseFrame ==
    [][ /\ last' = "handleUpgradeToggle"
           => /\ \E id \in catalogIds(recommendation) :
                    /\ (id \in Members(formData'.selectedUpgrades))
                         = (id \notin Members(formData.selectedUpgrades))
                    /\ Members(formData'.selectedUpgrades) \ {id}
                         = Members(formData.selectedUpgrades) \ {id}
              /\ FormFields(formData') = FormFields(formData)
              /\ UNCHANGED <<variant, currentStep, currentSection, recommendation,
                             isLoading, errors, pending>>
        /\ last' \in {"openSection", "backToCategories"}
           => /\ currentSection' # currentSection
              /\ (last' = "openSection") = (currentSection = NoSection)
              /\ (last' = "backToCategories") = (currentSection' = NoSection)
              /\ UNCHANGED <<variant, currentStep, formData, recommendation,
                             isLoading, errors, pending>> ]_vars

C39_Witness ==
    /\ variant = "api" /\ last = "handleUpgradeToggle" /\ Step = "CategoryDetail"
    /\ currentSection = "insurance" /\ formData.selectedUpgrades = <<1, 2>>

====
